---- MODULE Spec2Model ----
(***************************************************************************)
(* Model of the duplicate-content detection backend:                       *)
(*   backend/core/duplicate.py          duplicate()                        *)
(*   backend/dify_wrapper/dify_client.py DifyAPIClient                     *)
(*   backend/utils/document_handler.py  DocumentHandler.read / write       *)
(*   backend/services/duplicate_service.py, backend/api/api.py             *)
(*                                                                         *)
(* Text is a sequence of one-character strings, an HTTP body or an SSE     *)
(* line a sequence of lexical tokens, a Python value a tagged record.      *)
(* The two CJK delimiters and the CJK report headings are written with     *)
(* ASCII names.                                                            *)
(***************************************************************************)
EXTENDS Integers, Sequences, FiniteSets, TLC

VARIABLES
    CONFIG,           \* config.py: Config.DIFY_CONFIG, fixed for the process
    fs,               \* the filesystem: path -> file
    pc,               \* position of the request handler / of duplicate()
    endpoint,         \* "sync" | "async": which processing endpoint serves
    tmp_file_path,    \* api.py: tmp_file_path
    output_path,      \* api.py: the output_path query argument (or None)
    content,          \* duplicate(): content
    sentences,        \* duplicate(): sentences
    i,                \* duplicate(): loop index (1-based here)
    record,           \* duplicate(): record, an insertion-ordered dict
    responses,        \* the blocking results obtained so far, one per call
    received,         \* the HTTP responses the workflow API has answered with
    posts,            \* number of HTTP POSTs issued to the workflow API
    outstanding,      \* number of POSTs issued and not yet answered
    markdown_content, \* duplicate(): markdown_content
    exc,              \* the exception in flight / caught, or NoExc
    http,             \* the endpoint's HTTP answer, or NoHttp
    stdout,           \* what the request has printed (document_handler.py 199)
    initial_fs,       \* the filesystem as it was before the request started
    client,           \* client scenario: the DifyAPIClient object, or NoClient
    stream,           \* client scenario: run_workflow's stream argument
    wire,             \* client scenario: the HTTP response of the POST
    outcome,          \* client scenario: what run_workflow gave the caller
    line_no,          \* client scenario: lines of the body consumed so far
    yielded,          \* client scenario: the items the generator has yielded
    segment,          \* download scenario: the {file_path} path segment
    download,         \* download scenario: download_result's answer
    executors,        \* pool scenario: the ThreadPoolExecutor of each request
    runs              \* pool scenario: where each async request stands

vars == <<CONFIG, fs, pc, endpoint, tmp_file_path, output_path, content,
          sentences, i, record, responses, received, posts, outstanding,
          markdown_content, exc, http, stdout, initial_fs, client, stream,
          wire, outcome, line_no, yielded, segment, download, executors, runs>>

(***************************************************************************)
(* Bounds of the model.                                                    *)
(***************************************************************************)
MaxTextLen == 4     \* characters of a text given to the splitter alone
MaxDocLen == 2      \* characters of an exhaustively enumerated upload
MaxMatches == 2     \* elements of a result list returned by the workflow
MaxBodyLen == 3     \* tokens of an exhaustively enumerated HTTP body
MaxLines == 2       \* lines of a streamed body
MaxSegLen == 3      \* tokens of a {file_path} path segment
NumRequests == 5    \* async requests in flight together in the pool scenario

(***************************************************************************)
(* Sequence helpers.                                                       *)
(***************************************************************************)
SeqsUpTo(S, n) == UNION {[1..k -> S] : k \in 0..n}

RECURSIVE Flatten(_)
Flatten(ss) == IF ss = <<>> THEN <<>> ELSE Head(ss) \o Flatten(Tail(ss))

RECURSIVE StrJoin(_)
StrJoin(toks) == IF toks = <<>> THEN "" ELSE Head(toks) \o StrJoin(Tail(toks))

(***************************************************************************)
(* Python values.  A dict is insertion-ordered: a sequence of entries with *)
(* distinct keys.                                                          *)
(***************************************************************************)
None == [t |-> "None", v |-> <<>>]
PyStr(s) == [t |-> "str", v |-> s]
PyNum(n) == [t |-> "num", v |-> n]
PyList(xs) == [t |-> "list", v |-> xs]
PyDict(es) == [t |-> "dict", v |-> es]

IsDict(x) == x.t = "dict"

\* bool(x): None, "", [], {} are falsy (numbers of the model are non-zero)
Truthy(x) == CASE x.t = "None" -> FALSE
               [] x.t = "str" -> x.v # ""
               [] x.t = "num" -> TRUE
               [] OTHER -> x.v # <<>>

HasKey(es, k) == \E n \in 1..Len(es) : es[n].k = k

\* a mapping in which an assigned key always goes last
DictSetMoveToEnd(es, k, v) ==
    Append(SelectSeq(es, LAMBDA e : e.k # k), [k |-> k, v |-> v])

\* d[k] = v: an existing key keeps its position, a new key goes last
DictSet(es, k, v) ==
    IF HasKey(es, k)
    THEN [n \in 1..Len(es) |-> IF es[n].k = k THEN [k |-> k, v |-> v] ELSE es[n]]
    ELSE Append(es, [k |-> k, v |-> v])

\* d.get(k, default)
DictGet(es, k, default) ==
    IF HasKey(es, k)
    THEN es[CHOOSE n \in 1..Len(es) : es[n].k = k].v
    ELSE default

(***************************************************************************)
(* json.loads / json.dumps over token sequences.                           *)
(***************************************************************************)
JsonStrings == {"data", "outputs", "result", "content", "metadata", "score",
                "X", "Y"}
JsonNumbers == {"0.9", "0.5"}
Quote(s) == "\"" \o s \o "\""
IsStrTok(t) == \E s \in JsonStrings : t = Quote(s)
StrVal(t) == CHOOSE s \in JsonStrings : t = Quote(s)

ParseOk(val, next) == [ok |-> TRUE, val |-> val, next |-> next]
ParseFail(pos) == [ok |-> FALSE, val |-> None, next |-> pos]

RECURSIVE ParseValue(_, _), ParseElems(_, _, _), ParseMembers(_, _, _)
ParseValue(toks, p) ==
    IF p > Len(toks) THEN ParseFail(p)
    ELSE LET t == toks[p] IN
         CASE t = "null" -> ParseOk(None, p + 1)
           [] t \in JsonNumbers -> ParseOk(PyNum(t), p + 1)
           [] IsStrTok(t) -> ParseOk(PyStr(StrVal(t)), p + 1)
           [] t = "[" ->
                IF p + 1 <= Len(toks) /\ toks[p + 1] = "]"
                THEN ParseOk(PyList(<<>>), p + 2)
                ELSE ParseElems(toks, p + 1, <<>>)
           [] t = "{" ->
                IF p + 1 <= Len(toks) /\ toks[p + 1] = "}"
                THEN ParseOk(PyDict(<<>>), p + 2)
                ELSE ParseMembers(toks, p + 1, <<>>)
           [] OTHER -> ParseFail(p)

ParseElems(toks, p, acc) ==
    LET r == ParseValue(toks, p) IN
    IF ~r.ok THEN r
    ELSE IF r.next > Len(toks) THEN ParseFail(r.next)
    ELSE IF toks[r.next] = "," THEN ParseElems(toks, r.next + 1, Append(acc, r.val))
    ELSE IF toks[r.next] = "]" THEN ParseOk(PyList(Append(acc, r.val)), r.next + 1)
    ELSE ParseFail(r.next)

ParseMembers(toks, p, acc) ==
    IF p + 1 > Len(toks) THEN ParseFail(Len(toks) + 1)
    ELSE IF ~IsStrTok(toks[p]) THEN ParseFail(p)
    ELSE IF toks[p + 1] # ":" THEN ParseFail(p + 1)
    ELSE LET r == ParseValue(toks, p + 2) IN
         IF ~r.ok THEN r
         ELSE IF r.next > Len(toks) THEN ParseFail(r.next)
         ELSE LET acc2 == DictSet(acc, StrVal(toks[p]), r.val) IN
              IF toks[r.next] = "," THEN ParseMembers(toks, r.next + 1, acc2)
              ELSE IF toks[r.next] = "}" THEN ParseOk(PyDict(acc2), r.next + 1)
              ELSE ParseFail(r.next)

\* a parser that stops after the first value and ignores what follows
JsonLoadsPrefix(toks) ==
    LET r == ParseValue(toks, 1) IN
    IF r.ok THEN [ok |-> TRUE, val |-> r.val]
    ELSE [ok |-> FALSE, err |-> <<"Expecting value", ": char ", ToString(r.next - 1)>>]

\* json.loads(text): the value, or a JSONDecodeError carrying the position
JsonLoads(toks) ==
    LET r == ParseValue(toks, 1) IN
    IF r.ok /\ r.next = Len(toks) + 1 THEN [ok |-> TRUE, val |-> r.val]
    ELSE [ok |-> FALSE,
          err |-> <<IF r.ok THEN "Extra data" ELSE "Expecting value",
                    ": char ", ToString(r.next - 1)>>]

RECURSIVE JsonDumps(_), DumpElems(_), DumpMembers(_)
JsonDumps(x) ==
    CASE x.t = "None" -> <<"null">>
      [] x.t = "num" -> <<x.v>>
      [] x.t = "str" -> <<Quote(x.v)>>
      [] x.t = "list" -> <<"[">> \o DumpElems(x.v) \o <<"]">>
      [] OTHER -> <<"{">> \o DumpMembers(x.v) \o <<"}">>

DumpElems(xs) ==
    IF xs = <<>> THEN <<>>
    ELSE JsonDumps(Head(xs)) \o
         (IF Len(xs) > 1 THEN <<",">> ELSE <<>>) \o DumpElems(Tail(xs))

DumpMembers(es) ==
    IF es = <<>> THEN <<>>
    ELSE <<Quote(Head(es).k), ":">> \o JsonDumps(Head(es).v) \o
         (IF Len(es) > 1 THEN <<",">> ELSE <<>>) \o DumpMembers(Tail(es))

(***************************************************************************)
(* The sentence splitter: duplicate.py lines 27-28.                        *)
(***************************************************************************)
FW_COMMA == "U+FF0C"    \* the full-width comma
FW_STOP == "U+3002"     \* the ideographic full stop
Delimiters == {FW_COMMA, FW_STOP}
Whitespace == {" ", "\n"}

\* re.split(r'[,.]', text): the fragments between delimiters, empty ones kept
RECURSIVE ReSplit(_, _)
ReSplit(text, cur) ==
    IF text = <<>> THEN <<cur>>
    ELSE IF Head(text) \in Delimiters
         THEN <<cur>> \o ReSplit(Tail(text), <<>>)
         ELSE ReSplit(Tail(text), Append(cur, Head(text)))

RECURSIVE LStrip(_)
LStrip(s) == IF s # <<>> /\ Head(s) \in Whitespace THEN LStrip(Tail(s)) ELSE s

RECURSIVE RStrip(_)
RStrip(s) ==
    IF s # <<>> /\ s[Len(s)] \in Whitespace
    THEN RStrip(SubSeq(s, 1, Len(s) - 1))
    ELSE s

\* a strip that trims the left end only
StripLeftOnly(s) == LStrip(s)

\* str.strip()
Strip(s) == RStrip(LStrip(s))

\* [sentence.strip() for sentence in sentences if sentence.strip()]
RECURSIVE StripAndFilter(_)
StripAndFilter(frags) ==
    IF frags = <<>> THEN <<>>
    ELSE (IF Strip(Head(frags)) # <<>> THEN <<Strip(Head(frags))>> ELSE <<>>)
         \o StripAndFilter(Tail(frags))

SplitSentences(text) == StripAndFilter(ReSplit(text, <<>>))

(***************************************************************************)
(* Exceptions and what a call gives its caller.                            *)
(***************************************************************************)
Exc(type, msg) == [type |-> type, msg |-> msg]
NoExc == Exc("none", <<>>)

Return(val) == [kind |-> "return", val |-> val, exc |-> NoExc]
Raise(e) == [kind |-> "raise", val |-> None, exc |-> e]
Generator == [kind |-> "generator", val |-> None, exc |-> NoExc]
NoOutcome == [kind |-> "none", val |-> None, exc |-> NoExc]

(***************************************************************************)
(* DifyAPIClient: dify_client.py.                                          *)
(***************************************************************************)
HTTP_OK == 200

\* _get_headers
GetHeaders(api_key) ==
    <<[k |-> "Authorization", v |-> PyStr("Bearer " \o api_key.v)],
      [k |-> "Content-Type", v |-> PyStr("application/json")]>>

NoClient == [made |-> FALSE, base_url |-> None, api_key |-> None,
             user |-> None, headers |-> <<>>]

\* a check that always blames the first required field
FirstField(required_fields) == required_fields[1].k

\* the name of the first required field whose value is falsy, in dict order
FirstMissing(required_fields) ==
    LET bad == {n \in 1..Len(required_fields) : ~Truthy(required_fields[n].v)}
    IN  required_fields[CHOOSE n \in bad : \A m \in bad : n <= m].k

\* DifyAPIClient.__init__(config)
ClientInit(config) ==
    LET base_url == DictGet(config, "base_url", PyStr(""))
        api_key == DictGet(config, "api_key", PyStr(""))
        user == DictGet(config, "user", PyStr(""))
        required_fields == <<[k |-> "base_url", v |-> base_url],
                             [k |-> "api_key", v |-> api_key],
                             [k |-> "user", v |-> user]>>
    IN  IF \E n \in 1..Len(required_fields) : ~Truthy(required_fields[n].v)
        THEN [ok |-> FALSE, obj |-> NoClient,
              exc |-> Exc("ValueError",
                          <<FirstMissing(required_fields),
                            " is required in config but not provided">>)]
        ELSE [ok |-> TRUE,
              obj |-> [made |-> TRUE, base_url |-> base_url, api_key |-> api_key,
                       user |-> user, headers |-> GetHeaders(api_key)],
              exc |-> NoExc]

\* an HTTP response of the workflow API: status, body text, body lines
Response(status_code, text, lines) ==
    [status_code |-> status_code, text |-> text, lines |-> lines]
NoResponse == Response(0, <<>>, <<>>)

\* _workflow_blocking_process(response)
WorkflowBlockingProcess(response) ==
    LET parsed == JsonLoads(response.text) IN
    IF parsed.ok THEN Return(parsed.val)
    ELSE Raise(Exc("Exception",
                   <<"Failed to parse JSON response: ">> \o parsed.err \o
                   <<" - Response text: ">> \o response.text))

\* a run_workflow without the status check
RunWorkflowAnyStatus(response, streaming) ==
    IF streaming THEN Generator ELSE WorkflowBlockingProcess(response)

\* run_workflow, from the response of its one POST on
RunWorkflow(response, streaming) ==
    IF response.status_code = HTTP_OK
    THEN IF streaming THEN Generator ELSE WorkflowBlockingProcess(response)
    ELSE Raise(Exc("Exception",
                   <<"Error: ", ToString(response.status_code), " - ">> \o
                   response.text))

\* bytes.decode('utf-8') succeeds unless the line holds an invalid byte
InvalidUtf8 == {"\\xff"}
DecodeOk(line) == \A n \in 1..Len(line) : line[n] \notin InvalidUtf8

DataPrefix == "data: "
StartsWithData(line) == line # <<>> /\ line[1] = DataPrefix

\* the body of the for loop of _workflow_streaming_process, for one line
StreamLine(line) ==
    IF line = <<>> THEN [act |-> "skip", item |-> <<>>, exc |-> NoExc]
    ELSE IF ~StartsWithData(line) THEN [act |-> "skip", item |-> <<>>, exc |-> NoExc]
    ELSE IF ~DecodeOk(line)
         \* UnicodeDecodeError reaches `except Exception`, whose handler
         \* decodes the line again and raises out of the generator
         THEN [act |-> "raise", item |-> <<>>,
               exc |-> Exc("UnicodeDecodeError", <<"invalid start byte">>)]
    ELSE LET parsed == JsonLoads(Tail(line)) IN
         IF parsed.ok
         THEN [act |-> "yield", item |-> JsonDumps(parsed.val), exc |-> NoExc]
         ELSE [act |-> "yield",
               item |-> JsonDumps(PyDict(
                   <<[k |-> "error",
                      v |-> PyStr("Failed to parse JSON: " \o StrJoin(parsed.err))],
                     [k |-> "raw_line", v |-> PyStr(StrJoin(line))]>>)),
               exc |-> NoExc]

\* next(generator): run the loop from line n on, up to a yield, a raise or the end
RECURSIVE GeneratorNext(_, _)
GeneratorNext(lines, n) ==
    IF n > Len(lines) THEN [act |-> "stop", item |-> <<>>, exc |-> NoExc, at |-> n]
    ELSE LET r == StreamLine(lines[n]) IN
         IF r.act = "skip" THEN GeneratorNext(lines, n + 1)
         ELSE [act |-> r.act, item |-> r.item, exc |-> r.exc, at |-> n + 1]

(***************************************************************************)
(* Paths and files.                                                        *)
(***************************************************************************)
Path(dir, base, ext) == [dir |-> dir, base |-> base, ext |-> ext]

\* tempfile.NamedTemporaryFile(delete=False, suffix=file_extension).name
TmpPath(ext) == Path("/tmp", "tmpupload", ext)

\* directory + base_name + "_" + timestamp + ".md" (api.py 66-74, duplicate.py 59-67)
DefaultOutputPath(file_path) == Path(file_path.dir, file_path.base \o "_TIMESTAMP", ".md")

UploadExts == {".md", ".txt", ""}
GivenPaths == {Path("/out", "given", ".md"), Path("/out", "given", ".txt")}
Paths == {TmpPath(e) : e \in UploadExts}
         \cup {DefaultOutputPath(TmpPath(e)) : e \in UploadExts}
         \cup GivenPaths

File(kind, data) == [kind |-> kind, data |-> data]
Absent == File("absent", <<>>)
OldFile == File("old", <<"written before the request">>)

\* os.path.exists
Exists(files, path) == path \in DOMAIN files /\ files[path] # Absent

EmptyFs == [p \in Paths |-> Absent]

(***************************************************************************)
(* Inputs of the client scenario.                                          *)
(***************************************************************************)
StatusCodes == {200, 404, 500}
BodyTokens == {"[", "]", "{", "}", ":", ",", "0.9", Quote("X")}
ShortBodies == SeqsUpTo(BodyTokens, MaxBodyLen)
LongBodies == {<<"{", Quote("X"), ":", "0.9", "}">>,
               <<"{", Quote("X"), ":", "[", "0.9", ",", "null", "]", "}">>,
               <<"[", "0.9", ",", Quote("X"), "]">>,
               <<"{", Quote("X"), ":", "0.9", ",", "}">>,
               <<"[", "0.9", "]", "]">>}
Bodies == ShortBodies \cup LongBodies

Payloads == {<<"0.9">>, <<"[", "]">>, <<"[">>, <<>>, <<"\\xff">>,
             <<"{", Quote("X"), ":", "0.9", "}">>}
StreamLines == {<<>>, <<"event: ping">>, <<"data:", "0.9">>}
               \cup {<<DataPrefix>> \o p : p \in Payloads}
Streams == SeqsUpTo(StreamLines, MaxLines)

ClientResponses(streaming) ==
    IF streaming
    THEN {Response(c, Flatten(ls), ls) : c \in StatusCodes, ls \in Streams}
    ELSE {Response(c, b, <<>>) : c \in StatusCodes, b \in Bodies}

\* a config field: absent, None (an unset environment variable), "" or a value
FieldChoices == {"absent", "None", "empty", "value"}
ConfigEntry(name, choice) ==
    CASE choice = "absent" -> <<>>
      [] choice = "None" -> <<[k |-> name, v |-> None]>>
      [] choice = "empty" -> <<[k |-> name, v |-> PyStr("")]>>
      [] OTHER -> <<[k |-> name, v |-> PyStr(name \o "-value")]>>
MkConfig(b, a, u) ==
    ConfigEntry("base_url", b) \o ConfigEntry("api_key", a) \o ConfigEntry("user", u)
Configs == {MkConfig(b, a, u) : b \in FieldChoices, a \in FieldChoices, u \in FieldChoices}
ValidConfig == MkConfig("value", "value", "value")

(***************************************************************************)
(* Values of the variables a scenario does not use.                        *)
(***************************************************************************)
NoHttp == [status |-> 0, detail |-> <<>>, output_path |-> None, download_url |-> <<>>]

PipelineIdle ==
    /\ fs = EmptyFs
    /\ endpoint = "none"
    /\ tmp_file_path = None
    /\ output_path = None
    /\ content = <<>>
    /\ sentences = <<>>
    /\ i = 0
    /\ record = <<>>
    /\ responses = <<>>
    /\ outstanding = 0
    /\ markdown_content = <<>>
    /\ http = NoHttp
    /\ received = <<>>
    /\ stdout = <<>>
    /\ initial_fs = EmptyFs

ClientIdle ==
    /\ client = NoClient
    /\ stream = FALSE
    /\ wire = NoResponse
    /\ outcome = NoOutcome
    /\ line_no = 0
    /\ yielded = <<>>

\* the download scenario and the pool scenario, when not in use
NoDownload == [status |-> 0, detail |-> <<>>]

DownloadIdle ==
    /\ segment = <<>>
    /\ download = NoDownload

PoolIdle ==
    /\ executors = <<>>
    /\ runs = <<>>

pipelineVars == <<fs, endpoint, tmp_file_path, output_path, content, sentences, i,
                  record, responses, received, outstanding, markdown_content,
                  http, stdout, initial_fs>>
clientVars == <<client, stream, wire, outcome, line_no, yielded>>
downloadVars == <<segment, download>>
poolVars == <<executors, runs>>

(***************************************************************************)
(* The client scenario: construct a DifyAPIClient, call run_workflow once, *)
(* and in streaming mode consume the generator.                            *)
(***************************************************************************)
InitClient ==
    /\ CONFIG \in Configs
    /\ pc = "c_new"
    /\ posts = 0
    /\ exc = NoExc
    /\ ClientIdle
    /\ PipelineIdle
    /\ DownloadIdle
    /\ PoolIdle

\* DifyAPIClient(config)
Construct ==
    /\ pc = "c_new"
    /\ LET r == ClientInit(CONFIG) IN
       /\ client' = r.obj
       /\ outcome' = IF r.ok THEN NoOutcome ELSE Raise(r.exc)
       /\ pc' = IF r.ok THEN "c_ready" ELSE "c_failed"
    /\ UNCHANGED <<CONFIG, posts, exc, stream, wire, line_no, yielded>>
    /\ UNCHANGED <<pipelineVars, downloadVars, poolVars>>

\* client.run_workflow(inputs, stream): one POST, then the status check
CallRunWorkflow ==
    /\ pc = "c_ready"
    /\ \E s \in BOOLEAN : \E resp \in ClientResponses(s) :
       /\ stream' = s
       /\ wire' = resp
       /\ posts' = posts + 1
       /\ outcome' = RunWorkflow(resp, s)
       /\ pc' = IF RunWorkflow(resp, s).kind = "generator" THEN "c_stream" ELSE "c_done"
    /\ UNCHANGED <<CONFIG, exc, client, line_no, yielded>>
    /\ UNCHANGED <<pipelineVars, downloadVars, poolVars>>

\* next() on the generator run_workflow returned
ConsumeNext ==
    /\ pc = "c_stream"
    /\ LET r == GeneratorNext(wire.lines, line_no + 1) IN
       /\ line_no' = r.at - 1
       /\ yielded' = IF r.act = "yield" THEN Append(yielded, r.item) ELSE yielded
       /\ exc' = r.exc
       /\ pc' = CASE r.act = "yield" -> "c_stream"
                  [] r.act = "stop" -> "c_exhausted"
                  [] OTHER -> "c_raised"
    /\ UNCHANGED <<CONFIG, posts, client, stream, wire, outcome>>
    /\ UNCHANGED <<pipelineVars, downloadVars, poolVars>>

NextClient == Construct \/ CallRunWorkflow \/ ConsumeNext

SpecClient == InitClient /\ [][NextClient]_vars

(***************************************************************************)
(* DocumentHandler.read / write: document_handler.py.                      *)
(***************************************************************************)
MarkdownExts == {".md", ".markdown"}
OtherKnownExts == {".docx", ".csv", ".xlsx", ".xls"}

UnknownTypeError ==
    Exc("ValueError",
        <<"Unable to determine file type from extension. Please specify file_type.">>)

\* a reader that takes every file for plain text, whatever its name
DocReadAsPlainText(files, filepath) ==
    IF ~Exists(files, filepath)
    THEN [ok |-> FALSE, content |-> <<>>,
          exc |-> Exc("FileNotFoundError", <<"File does not exist">>)]
    ELSE [ok |-> TRUE, content |-> files[filepath].data, exc |-> NoExc]

\* DocumentHandler.read(filepath) with file_type None.  The uploads of the
\* model end in ".md", ".txt" or nothing, so of the readers only read_markdown
\* is reached; the Word, CSV and Excel readers are not modelled.
DocRead(files, filepath) ==
    IF filepath.ext \notin MarkdownExts \cup OtherKnownExts
    THEN [ok |-> FALSE, content |-> <<>>, exc |-> UnknownTypeError]
    ELSE IF ~Exists(files, filepath)
    THEN [ok |-> FALSE, content |-> <<>>,
          exc |-> Exc("FileNotFoundError", <<"File does not exist">>)]
    ELSE [ok |-> TRUE, content |-> files[filepath].data, exc |-> NoExc]

\* DocumentHandler.write_markdown(content, filepath, overwrite): an existing
\* file raises FileExistsError inside the try, which is caught: returns False
WriteMarkdown(files, text, filepath, overwrite) ==
    IF Exists(files, filepath) /\ ~overwrite
    THEN [ok |-> TRUE, written |-> FALSE, files |-> files, exc |-> NoExc,
          printed |-> <<"Error writing to markdown file: already exists and overwrite is set to False">>]
    ELSE [ok |-> TRUE, written |-> TRUE,
          files |-> [files EXCEPT ![filepath] = File("report", text)],
          exc |-> NoExc, printed |-> <<>>]

\* DocumentHandler.write(content, filepath), overwrite defaulting to False.
\* The output paths of the model end in ".md" or ".txt", so of the writers
\* only write_markdown is reached.
DocWrite(files, text, filepath) ==
    IF filepath.ext \notin MarkdownExts \cup OtherKnownExts
    THEN [ok |-> FALSE, written |-> FALSE, files |-> files, exc |-> UnknownTypeError,
          printed |-> <<>>]
    ELSE WriteMarkdown(files, text, filepath, FALSE)

(***************************************************************************)
(* duplicate(): duplicate.py.                                              *)
(***************************************************************************)
Pair(c, s) == [content |-> c, score |-> s]

\* (result[j]["content"], result[j]['metadata']['score']) or the error raised
MatchPair(elem) ==
    IF ~IsDict(elem)
    THEN [ok |-> FALSE, pair |-> Pair(None, None), exc |-> Exc("TypeError", <<"not subscriptable by str">>)]
    ELSE IF ~HasKey(elem.v, "content")
    THEN [ok |-> FALSE, pair |-> Pair(None, None), exc |-> Exc("KeyError", <<"'content'">>)]
    ELSE IF ~HasKey(elem.v, "metadata")
    THEN [ok |-> FALSE, pair |-> Pair(None, None), exc |-> Exc("KeyError", <<"'metadata'">>)]
    ELSE LET metadata == DictGet(elem.v, "metadata", None) IN
         IF ~IsDict(metadata)
         THEN [ok |-> FALSE, pair |-> Pair(None, None), exc |-> Exc("TypeError", <<"not subscriptable by str">>)]
         ELSE IF ~HasKey(metadata.v, "score")
         THEN [ok |-> FALSE, pair |-> Pair(None, None), exc |-> Exc("KeyError", <<"'score'">>)]
         ELSE [ok |-> TRUE,
               pair |-> Pair(DictGet(elem.v, "content", None),
                             DictGet(metadata.v, "score", None)),
               exc |-> NoExc]

\* a loop that puts each new pair in front of the list
RECURSIVE PrependPairs(_, _, _)
PrependPairs(result, j, acc) ==
    IF j > Len(result) THEN [ok |-> TRUE, pairs |-> acc, exc |-> NoExc]
    ELSE LET m == MatchPair(result[j]) IN
         IF m.ok THEN PrependPairs(result, j + 1, <<m.pair>> \o acc)
         ELSE [ok |-> FALSE, pairs |-> acc, exc |-> m.exc]

\* the for loop of lines 42-44 from element j on: the list built, and the
\* error of the first element that raises
RECURSIVE AppendPairs(_, _, _)
AppendPairs(result, j, acc) ==
    IF j > Len(result) THEN [ok |-> TRUE, pairs |-> acc, exc |-> NoExc]
    ELSE LET m == MatchPair(result[j]) IN
         IF m.ok THEN AppendPairs(result, j + 1, Append(acc, m.pair))
         ELSE [ok |-> FALSE, pairs |-> acc, exc |-> m.exc]

\* assertions stripped, as under python -O
AssertStripped(x) == TRUE

\* lines 36 and 38: assert isinstance(x, dict) passes
AssertIsDict(x) == IsDict(x)

\* lines 36-44: the checks on one blocking result and the update of record
ProcessResult(result, rec, sentence) ==
    IF ~AssertIsDict(result)
    THEN [ok |-> FALSE, record |-> rec, exc |-> Exc("AssertionError", <<>>)]
    ELSE LET data == DictGet(result.v, "data", None) IN
    IF ~AssertIsDict(data)
    THEN [ok |-> FALSE, record |-> rec, exc |-> Exc("AssertionError", <<>>)]
    ELSE LET outputs == DictGet(data.v, "outputs", PyDict(<<>>)) IN
    IF ~IsDict(outputs)
    THEN [ok |-> FALSE, record |-> rec,
          exc |-> Exc("AttributeError", <<"object has no attribute 'get'">>)]
    ELSE LET res == DictGet(outputs.v, "result", None) IN
    IF ~Truthy(res)
    THEN [ok |-> TRUE, record |-> rec, exc |-> NoExc]
    ELSE IF res.t = "num"
    THEN [ok |-> FALSE, record |-> rec, exc |-> Exc("TypeError", <<"object has no len()">>)]
    ELSE IF res.t = "str"
    THEN [ok |-> FALSE, record |-> DictSet(rec, sentence, <<>>),
          exc |-> Exc("TypeError", <<"string indices must be integers">>)]
    ELSE IF res.t = "dict"
    THEN [ok |-> FALSE, record |-> DictSet(rec, sentence, <<>>),
          exc |-> Exc("KeyError", <<"0">>)]
    ELSE LET r == AppendPairs(res.v, 1, <<>>) IN
         [ok |-> r.ok, record |-> DictSet(rec, sentence, r.pairs), exc |-> r.exc]

\* str(x) as an f-string formats it
PyToStr(x) ==
    CASE x.t = "str" -> x.v
      [] x.t = "num" -> x.v
      [] x.t = "None" -> "None"
      [] OTHER -> StrJoin(JsonDumps(x))

REPORT_HEADER == "# DUPLICATE-CONTENT-RESULT\n\n"
ORIGINAL_HEADING == "## ORIGINAL-SENTENCE\n\n"
DUPLICATES_HEADING == "### DUPLICATE-CONTENT\n\n"
ITEM_LABEL == "**DUPLICATE-ITEM "
RULE == "---\n\n"

\* an inner loop that numbers the items from 0
RECURSIVE RenderDuplicatesFromZero(_, _)
RenderDuplicatesFromZero(duplicates, n) ==
    IF n >= Len(duplicates) THEN <<>>
    ELSE <<ITEM_LABEL, ToString(n), "** (Similarity: ",
           PyToStr(duplicates[n + 1].score), ")\n\n",
           PyToStr(duplicates[n + 1].content), "\n\n">>
         \o RenderDuplicatesFromZero(duplicates, n + 1)

\* lines 53-55, the inner loop from index n (0-based) on
RECURSIVE RenderDuplicates(_, _)
RenderDuplicates(duplicates, n) ==
    IF n >= Len(duplicates) THEN <<>>
    ELSE <<ITEM_LABEL, ToString(n + 1), "** (Similarity: ",
           PyToStr(duplicates[n + 1].score), ")\n\n",
           PyToStr(duplicates[n + 1].content), "\n\n">>
         \o RenderDuplicates(duplicates, n + 1)

\* lines 49-56, the loop over record.items()
RECURSIVE RenderSections(_)
RenderSections(rec) ==
    IF rec = <<>> THEN <<>>
    ELSE <<ORIGINAL_HEADING, StrJoin(Head(rec).k), "\n\n", DUPLICATES_HEADING>>
         \o RenderDuplicates(Head(rec).v, 0)
         \o <<RULE>>
         \o RenderSections(Tail(rec))

\* lines 47-56: markdown_content, as the chunks appended to it
RenderReport(rec) == <<REPORT_HEADER>> \o RenderSections(rec)

\* lines 59-67
DuplicateOutputPath(file_path, out) ==
    IF out = None THEN DefaultOutputPath(file_path) ELSE out

(***************************************************************************)
(* Inputs of the pipeline: uploaded documents and workflow responses.      *)
(***************************************************************************)
DocChars == {"A", "B", FW_COMMA}
\* every short document, and two-sentence documents with a repeated sentence
\* and with distinct sentences
TwoSentenceDocs == {<<"A", FW_COMMA, "A">>, <<"A", FW_COMMA, "B">>}
Docs == SeqsUpTo(DocChars, MaxDocLen) \cup TwoSentenceDocs

Obj(key, body) == <<"{", Quote(key), ":">> \o body \o <<"}">>

RECURSIVE CommaJoin(_)
CommaJoin(items) ==
    IF items = <<>> THEN <<>>
    ELSE Head(items) \o (IF Len(items) > 1 THEN <<",">> ELSE <<>>) \o CommaJoin(Tail(items))
Arr(items) == <<"[">> \o CommaJoin(items) \o <<"]">>

\* {"content": c, "metadata": {"score": s}}
MatchText(c, s) ==
    <<"{", Quote("content"), ":", c, ",", Quote("metadata"), ":">>
    \o Obj("score", <<s>>) \o <<"}">>
GoodMatches == {MatchText(Quote("X"), "0.9"), MatchText(Quote("Y"), "0.5")}

\* {"data": {"outputs": {"result": r}}}
WithResult(r) == Obj("data", Obj("outputs", Obj("result", r)))

WellFormedBodies == {WithResult(Arr(ms)) : ms \in SeqsUpTo(GoodMatches, MaxMatches)}
OddResultBodies ==
    {WithResult(<<"null">>), WithResult(<<Quote("X")>>), WithResult(<<"0.9">>),
     WithResult(Arr(<<Obj("content", <<Quote("X")>>)>>)),
     WithResult(Arr(<<<<Quote("X")>>>>))}
OddShapeBodies ==
    {<<"<html>">>, <<"[", "]">>, <<"{", "}">>,
     Obj("data", <<"null">>), Obj("data", <<"{", "}">>),
     Obj("data", Obj("outputs", <<"null">>)),
     Obj("data", Obj("outputs", <<"{", "}">>))}
PipelineResponses ==
    {Response(HTTP_OK, b, <<>>) :
        b \in WellFormedBodies \cup OddResultBodies \cup OddShapeBodies}
    \cup {Response(500, <<"Internal Server Error">>, <<>>)}

PipelineConfigs == {ValidConfig, MkConfig("value", "None", "value")}

(***************************************************************************)
(* The processing endpoints: api.py, duplicate_service.py.                 *)
(***************************************************************************)
Endpoints == {"sync", "async"}

\* api.py 66-76 (sync) and 133-143 (async)
ResultOutputPath ==
    IF output_path = None THEN DefaultOutputPath(tmp_file_path) ELSE output_path

\* urllib.parse.quote(path): "/" is kept, the rest of the model's paths is safe
UrlQuote(path) == path.dir \o "/" \o path.base \o path.ext

\* api.py 83-90: the success response of check_duplicate_content_sync
SuccessResponseSync(out) ==
    [status |-> 200, detail |-> <<"Duplicate content check completed successfully">>,
     output_path |-> out,
     download_url |-> <<"/api/v1/download-result/", UrlQuote(out)>>]

\* an async endpoint that answers before the run has produced its file
SuccessResponseQueued(out) ==
    [status |-> 200, detail |-> <<"Duplicate content check queued">>,
     output_path |-> out, download_url |-> <<>>]

\* api.py 150-157: the success response of check_duplicate_content_async
SuccessResponseAsync(out) ==
    [status |-> 200, detail |-> <<"Duplicate content check completed successfully">>,
     output_path |-> out,
     download_url |-> <<"/api/v1/download-result/", UrlQuote(out)>>]

\* raise HTTPException(status_code=500, detail=f"Error processing file: {str(e)}")
ErrorResponse(e) ==
    [status |-> 500, detail |-> <<"Error processing file: ">> \o e.msg,
     output_path |-> None, download_url |-> <<>>]

\* os.unlink inside try/except-pass: a missing file raises, and is passed over
Unlink(files, path) == [files EXCEPT ![path] = Absent]

\* api.py 93-98: the cleanup of the sync endpoint's except branch.  The first
\* unlink raising skips the second; `if output_path` holds for every path
\* the model supplies and fails for None.
ExceptCleanupSync(files, tmp, out_arg, out) ==
    IF ~Exists(files, tmp) THEN files
    ELSE LET f1 == Unlink(files, tmp) IN
         IF out_arg # None /\ Exists(f1, out) THEN Unlink(f1, out) ELSE f1

\* an except branch that removes the temporary input only
ExceptCleanupTmpOnly(files, tmp, out_arg, out) ==
    IF ~Exists(files, tmp) THEN files ELSE Unlink(files, tmp)

\* api.py 160-165: the cleanup of the async endpoint's except branch
ExceptCleanupAsync(files, tmp, out_arg, out) ==
    IF ~Exists(files, tmp) THEN files
    ELSE LET f1 == Unlink(files, tmp) IN
         IF out_arg # None /\ Exists(f1, out) THEN Unlink(f1, out) ELSE f1

\* a finally block that removes nothing
FinallyKeepsTmp(files, tmp) == files

\* api.py 102-105 and 169-172: the finally block
FinallyCleanup(files, tmp) ==
    IF Exists(files, tmp) THEN Unlink(files, tmp) ELSE files

Init ==
    /\ CONFIG \in PipelineConfigs
    /\ \E pre \in {{}, GivenPaths} :
          fs = [p \in Paths |-> IF p \in pre THEN OldFile ELSE Absent]
    /\ pc = "idle"
    /\ endpoint = "none"
    /\ tmp_file_path = None
    /\ output_path = None
    /\ content = <<>>
    /\ sentences = <<>>
    /\ i = 0
    /\ record = <<>>
    /\ responses = <<>>
    /\ posts = 0
    /\ outstanding = 0
    /\ markdown_content = <<>>
    /\ exc = NoExc
    /\ http = NoHttp
    /\ received = <<>>
    /\ stdout = <<>>
    /\ initial_fs = fs
    /\ ClientIdle
    /\ DownloadIdle
    /\ PoolIdle

\* api.py 58-76: the upload is copied to a temporary file
Upload ==
    /\ pc = "idle"
    /\ \E ep \in Endpoints, ext \in UploadExts, text \in Docs,
          out \in {None} \cup GivenPaths :
       /\ endpoint' = ep
       /\ tmp_file_path' = TmpPath(ext)
       /\ output_path' = out
       /\ fs' = [fs EXCEPT ![TmpPath(ext)] = File("upload", text)]
    /\ pc' = "read"
    /\ UNCHANGED <<CONFIG, content, sentences, i, record, responses, received,
                   posts, outstanding, markdown_content, exc, http, stdout,
                   initial_fs>>
    /\ UNCHANGED <<clientVars, downloadVars, poolVars>>

\* duplicate.py 24-31: read the file, split it, start with an empty record
ReadAndSplit ==
    /\ pc = "read"
    /\ LET r == DocRead(fs, tmp_file_path) IN
       /\ content' = r.content
       /\ sentences' = IF r.ok THEN SplitSentences(r.content) ELSE <<>>
       /\ exc' = r.exc
       /\ pc' = IF r.ok THEN "loop" ELSE "except"
    /\ i' = 1
    /\ record' = <<>>
    /\ UNCHANGED <<CONFIG, fs, endpoint, tmp_file_path, output_path, responses,
                   received, posts, outstanding, markdown_content, http, stdout,
                   initial_fs>>
    /\ UNCHANGED <<clientVars, downloadVars, poolVars>>

\* a loop that sends the POST for the next sentence without waiting for the
\* answer to the previous one
IssueCallPipelined ==
    /\ pc \in {"loop", "await"}
    /\ posts < Len(sentences)
    /\ LET c == ClientInit(CONFIG) IN
       /\ posts' = IF c.ok THEN posts + 1 ELSE posts
       /\ outstanding' = IF c.ok THEN outstanding + 1 ELSE outstanding
       /\ exc' = c.exc
       /\ pc' = IF c.ok THEN "await" ELSE "except"
    /\ UNCHANGED <<CONFIG, fs, endpoint, tmp_file_path, output_path, content,
                   sentences, i, record, responses, received, markdown_content,
                   http, stdout, initial_fs>>
    /\ UNCHANGED <<clientVars, downloadVars, poolVars>>

\* duplicate.py 34: DifyAPIClient(CONFIG.DIFY_CONFIG), then the POST is sent
IssueCall ==
    /\ pc = "loop"
    /\ i <= Len(sentences)
    /\ LET c == ClientInit(CONFIG) IN
       /\ posts' = IF c.ok THEN posts + 1 ELSE posts
       /\ outstanding' = IF c.ok THEN outstanding + 1 ELSE outstanding
       /\ exc' = c.exc
       /\ pc' = IF c.ok THEN "await" ELSE "except"
    /\ UNCHANGED <<CONFIG, fs, endpoint, tmp_file_path, output_path, content,
                   sentences, i, record, responses, received, markdown_content,
                   http, stdout, initial_fs>>
    /\ UNCHANGED <<clientVars, downloadVars, poolVars>>

\* duplicate.py 34-44: the response arrives, is checked and recorded
ReceiveResponse ==
    /\ pc = "await"
    /\ \E resp \in PipelineResponses :
       \E got \in {RunWorkflow(resp, FALSE)} :
       \E r \in {ProcessResult(got.val, record, sentences[i])} :
           /\ received' = Append(received, resp)
           /\ IF got.kind = "raise"
              THEN /\ exc' = got.exc
                   /\ pc' = "except"
                   /\ UNCHANGED <<record, responses, i>>
              ELSE /\ responses' = Append(responses, got.val)
                   /\ record' = r.record
                   /\ exc' = r.exc
                   /\ i' = IF r.ok THEN i + 1 ELSE i
                   /\ pc' = IF r.ok THEN "loop" ELSE "except"
    /\ outstanding' = outstanding - 1
    /\ UNCHANGED <<CONFIG, fs, endpoint, tmp_file_path, output_path, content,
                   sentences, posts, markdown_content, http, stdout, initial_fs>>
    /\ UNCHANGED <<clientVars, downloadVars, poolVars>>

\* duplicate.py 46-74: render the report and write it
RenderAndWrite ==
    /\ pc = "loop"
    /\ i > Len(sentences)
    /\ markdown_content' = RenderReport(record)
    /\ LET w == DocWrite(fs, RenderReport(record),
                         DuplicateOutputPath(tmp_file_path, ResultOutputPath))
       IN  /\ fs' = w.files
           /\ stdout' = stdout \o w.printed
           /\ exc' = w.exc
           /\ pc' = IF w.ok THEN "return" ELSE "except"
    /\ UNCHANGED <<CONFIG, endpoint, tmp_file_path, output_path, content, sentences,
                   i, record, responses, received, posts, outstanding, http,
                   initial_fs>>
    /\ UNCHANGED <<clientVars, downloadVars, poolVars>>

\* api.py 82-90 / 149-157: the success response
HandlerReturn ==
    /\ pc = "return"
    /\ http' = IF endpoint = "sync" THEN SuccessResponseSync(ResultOutputPath)
               ELSE SuccessResponseAsync(ResultOutputPath)
    /\ pc' = "finally"
    /\ UNCHANGED <<CONFIG, fs, endpoint, tmp_file_path, output_path, content,
                   sentences, i, record, responses, received, posts, outstanding,
                   markdown_content, exc, stdout, initial_fs>>
    /\ UNCHANGED <<clientVars, downloadVars, poolVars>>

\* api.py 91-99 / 158-166: the except branch
HandlerExcept ==
    /\ pc = "except"
    /\ fs' = IF endpoint = "sync"
             THEN ExceptCleanupSync(fs, tmp_file_path, output_path, ResultOutputPath)
             ELSE ExceptCleanupAsync(fs, tmp_file_path, output_path, ResultOutputPath)
    /\ http' = ErrorResponse(exc)
    /\ pc' = "finally"
    /\ UNCHANGED <<CONFIG, endpoint, tmp_file_path, output_path, content, sentences,
                   i, record, responses, received, posts, outstanding,
                   markdown_content, exc, stdout, initial_fs>>
    /\ UNCHANGED <<clientVars, downloadVars, poolVars>>

\* api.py 100-105 / 167-172: the finally block, then the request is finished
HandlerFinally ==
    /\ pc = "finally"
    /\ fs' = FinallyCleanup(fs, tmp_file_path)
    /\ pc' = "done"
    /\ UNCHANGED <<CONFIG, endpoint, tmp_file_path, output_path, content, sentences,
                   i, record, responses, received, posts, outstanding,
                   markdown_content, exc, http, stdout, initial_fs>>
    /\ UNCHANGED <<clientVars, downloadVars, poolVars>>

Next ==
    \/ Upload
    \/ ReadAndSplit
    \/ IssueCall
    \/ ReceiveResponse
    \/ RenderAndWrite
    \/ HandlerReturn
    \/ HandlerExcept
    \/ HandlerFinally

Spec == Init /\ [][Next]_vars

(***************************************************************************)
(* The splitter scenario: the splitter applied to every short text.        *)
(***************************************************************************)
SplitChars == {"A", "B", " ", "\n", FW_COMMA, FW_STOP}
SplitTexts == SeqsUpTo(SplitChars, MaxTextLen)

InitSplit ==
    /\ CONFIG = ValidConfig
    /\ fs = EmptyFs
    /\ pc = "s_input"
    /\ endpoint = "none"
    /\ tmp_file_path = None
    /\ output_path = None
    /\ content \in SplitTexts
    /\ sentences = <<>>
    /\ i = 0
    /\ record = <<>>
    /\ responses = <<>>
    /\ posts = 0
    /\ outstanding = 0
    /\ markdown_content = <<>>
    /\ exc = NoExc
    /\ http = NoHttp
    /\ received = <<>>
    /\ stdout = <<>>
    /\ initial_fs = EmptyFs
    /\ ClientIdle
    /\ DownloadIdle
    /\ PoolIdle

\* duplicate.py 27-28 on the text held in content
SplitStep ==
    /\ pc = "s_input"
    /\ sentences' = SplitSentences(content)
    /\ pc' = "s_done"
    /\ UNCHANGED <<CONFIG, fs, endpoint, tmp_file_path, output_path, content, i,
                   record, responses, received, posts, outstanding,
                   markdown_content, exc, http, stdout, initial_fs>>
    /\ UNCHANGED <<clientVars, downloadVars, poolVars>>

NextSplit == SplitStep

SpecSplit == InitSplit /\ [][NextSplit]_vars

(***************************************************************************)
(* The repeated-sentence scenario: a synchronous request, from the moment  *)
(* its upload is stored, for documents in which a sentence comes back.     *)
(***************************************************************************)
RepeatDocs == {<<"A", FW_COMMA, "B", FW_COMMA, "A">>, <<"A", FW_COMMA, "A">>}

InitRepeat ==
    /\ CONFIG = ValidConfig
    /\ \E text \in RepeatDocs :
          fs = [EmptyFs EXCEPT ![TmpPath(".md")] = File("upload", text)]
    /\ pc = "read"
    /\ endpoint = "sync"
    /\ tmp_file_path = TmpPath(".md")
    /\ output_path = None
    /\ content = <<>>
    /\ sentences = <<>>
    /\ i = 0
    /\ record = <<>>
    /\ responses = <<>>
    /\ received = <<>>
    /\ posts = 0
    /\ outstanding = 0
    /\ markdown_content = <<>>
    /\ exc = NoExc
    /\ http = NoHttp
    /\ stdout = <<>>
    /\ initial_fs = EmptyFs
    /\ ClientIdle
    /\ DownloadIdle
    /\ PoolIdle

NextRepeat ==
    \/ ReadAndSplit
    \/ IssueCall
    \/ ReceiveResponse
    \/ RenderAndWrite
    \/ HandlerReturn
    \/ HandlerExcept
    \/ HandlerFinally

SpecRepeat == InitRepeat /\ [][NextRepeat]_vars

(***************************************************************************)
(* The pool scenario: NumRequests requests to the async endpoint at once.  *)
(* api.py 33, duplicate_service.py 36-46; an executor is the record of its *)
(* max_workers, the requests whose run it was given and its threads.       *)
(***************************************************************************)
MAX_WORKERS == 4
Requests == 1..NumRequests

\* ThreadPoolExecutor(max_workers=n)
NewExecutor(n) == [max_workers |-> n, items |-> {}, threads |-> 0]

\* threads of the executor that are not inside a run
IdleThreads(e, rs) ==
    e.threads - Cardinality({q \in e.items : rs[q] = "running"})

\* executor.submit(duplicate, ...) for request r: the work item is queued and
\* a thread is started unless one is idle or max_workers threads exist
Submit(e, r, rs) ==
    [e EXCEPT !.items = @ \cup {r},
              !.threads = IF IdleThreads(e, rs) > 0 \/ @ >= e.max_workers
                          THEN @ ELSE @ + 1]

\* a service that keeps one executor and gives it every request's run
SubmitToSharedExecutor(pool, r, rs) ==
    IF pool = {} THEN {Submit(NewExecutor(MAX_WORKERS), r, rs)}
    ELSE {Submit(e, r, rs) : e \in pool}

\* duplicate_service.py 45-46: a new executor for this call, and the run of
\* request r submitted to it
SubmitToOwnExecutor(pool, r, rs) ==
    pool \cup {Submit(NewExecutor(MAX_WORKERS), r, rs)}

\* the executor that holds the run of request r
ExecutorOf(pool, r) == CHOOSE e \in pool : r \in e.items

InitPool ==
    /\ CONFIG = ValidConfig
    /\ pc = "pool"
    /\ posts = 0
    /\ exc = NoExc
    /\ executors = {}
    /\ runs = [r \in Requests |-> "arrived"]
    /\ PipelineIdle
    /\ ClientIdle
    /\ DownloadIdle

\* process_file_async up to the await: request r gets its executor
CreateAndSubmit(r) ==
    /\ runs[r] = "arrived"
    /\ executors' = SubmitToOwnExecutor(executors, r, runs)
    /\ runs' = [runs EXCEPT ![r] = "submitted"]

\* a free thread of the executor takes the run: duplicate() is entered
WorkerStart(r) ==
    /\ runs[r] = "submitted"
    /\ IdleThreads(ExecutorOf(executors, r), runs) > 0
    /\ runs' = [runs EXCEPT ![r] = "running"]
    /\ UNCHANGED executors

\* duplicate() returns or raises
WorkerFinish(r) ==
    /\ runs[r] = "running"
    /\ runs' = [runs EXCEPT ![r] = "finished"]
    /\ UNCHANGED executors

\* the await returns and the with block shuts the executor down
Shutdown(r) ==
    /\ runs[r] = "finished"
    /\ LET e == ExecutorOf(executors, r) IN
       executors' = IF \A q \in e.items : runs[q] \in {"finished", "answered"}
                    THEN executors \ {e} ELSE executors
    /\ runs' = [runs EXCEPT ![r] = "answered"]

PoolStep(r) ==
    /\ pc = "pool"
    /\ \/ CreateAndSubmit(r)
       \/ WorkerStart(r)
       \/ WorkerFinish(r)
       \/ Shutdown(r)
    /\ UNCHANGED <<CONFIG, pc, posts, exc>>
    /\ UNCHANGED <<pipelineVars, clientVars, downloadVars>>

NextPool == \E r \in Requests : PoolStep(r)

SpecPool == InitPool /\ [][NextPool]_vars

(***************************************************************************)
(* The download scenario: download_result on every short path segment and  *)
(* every filesystem over the caller-chosen output paths.                   *)
(***************************************************************************)
\* the path as the string the operating system is given
PathString(path) == path.dir \o "/" \o path.base \o path.ext

\* urllib.parse.unquote: a %XX escape becomes its character, once; anything
\* else, a lone "%" included, is kept
Escapes == {[esc |-> "%2E", chr |-> "."], [esc |-> "%25", chr |-> "%"]}
UnquoteToken(tok) ==
    IF \E e \in Escapes : e.esc = tok
    THEN (CHOOSE e \in Escapes : e.esc = tok).chr
    ELSE tok
Unquote(toks) == [n \in 1..Len(toks) |-> UnquoteToken(toks[n])]

\* os.path.exists(name)
PathExists(files, name) ==
    \E p \in DOMAIN files : PathString(p) = name /\ Exists(files, p)
PathAt(files, name) ==
    CHOOSE p \in DOMAIN files : PathString(p) = name /\ Exists(files, p)

\* a download handler that cleans the served file up afterwards
DownloadResultWithCleanup(files, file_path) ==
    LET decoded_path == StrJoin(Unquote(file_path)) IN
    IF ~PathExists(files, decoded_path)
    THEN [answer |-> [status |-> 404, detail |-> <<"File not found">>], files |-> files]
    ELSE LET p == PathAt(files, decoded_path) IN
         [answer |-> [status |-> 200, media_type |-> "text/markdown",
                      filename |-> p.base \o p.ext, body |-> files[p].data],
          files |-> Unlink(files, p)]

\* api.py 188-203: download_result(file_path); FileResponse serves the file
\* at decoded_path as it is on disk
DownloadResult(files, file_path) ==
    LET decoded_path == StrJoin(Unquote(file_path)) IN
    IF ~PathExists(files, decoded_path)
    THEN [answer |-> [status |-> 404, detail |-> <<"File not found">>], files |-> files]
    ELSE LET p == PathAt(files, decoded_path) IN
         [answer |-> [status |-> 200, media_type |-> "text/markdown",
                      filename |-> p.base \o p.ext, body |-> files[p].data],
          files |-> files]

SegTokens == {"/out/given", ".", "md", "%2E", "%25", "2E"}
Segments == SeqsUpTo(SegTokens, MaxSegLen)
StoredFiles == {Absent, OldFile, File("report", <<REPORT_HEADER>>)}

InitDownload ==
    /\ CONFIG = ValidConfig
    /\ \E stored \in [GivenPaths -> StoredFiles] :
          fs = [p \in Paths |-> IF p \in GivenPaths THEN stored[p] ELSE Absent]
    /\ pc = "d_request"
    /\ segment \in Segments
    /\ download = NoDownload
    /\ endpoint = "none"
    /\ tmp_file_path = None
    /\ output_path = None
    /\ content = <<>>
    /\ sentences = <<>>
    /\ i = 0
    /\ record = <<>>
    /\ responses = <<>>
    /\ received = <<>>
    /\ posts = 0
    /\ outstanding = 0
    /\ markdown_content = <<>>
    /\ exc = NoExc
    /\ http = NoHttp
    /\ stdout = <<>>
    /\ initial_fs = fs
    /\ ClientIdle
    /\ PoolIdle

\* GET /api/v1/download-result/{file_path}
DownloadStep ==
    /\ pc = "d_request"
    /\ LET r == DownloadResult(fs, segment) IN
       /\ download' = r.answer
       /\ fs' = r.files
    /\ pc' = "d_done"
    /\ UNCHANGED <<CONFIG, endpoint, tmp_file_path, output_path, content, sentences,
                   i, record, responses, received, posts, outstanding,
                   markdown_content, exc, http, stdout, initial_fs, segment>>
    /\ UNCHANGED <<clientVars, poolVars>>

NextDownload == DownloadStep

SpecDownload == InitDownload /\ [][NextDownload]_vars

(***************************************************************************)
(* C3.  The splitter returns, in document order, the trimmed non-empty     *)
(* fragments between delimiters.                                           *)
(***************************************************************************)
\* positions that bound a fragment: before the text, each delimiter, after it
Cuts(text) == {0, Len(text) + 1} \cup {k \in 1..Len(text) : text[k] \in Delimiters}

\* the non-whitespace positions strictly between cut a and the next cut
Inside(text, a) ==
    {k \in 1..Len(text) :
        /\ k > a
        /\ \A c \in Cuts(text) : c > a => k < c
        /\ text[k] \notin Whitespace}

\* the cuts that open a fragment holding a non-whitespace character
Openers(text) == {a \in Cuts(text) : a <= Len(text) /\ Inside(text, a) # {}}

Lowest(S) == CHOOSE x \in S : \A y \in S : x <= y
Highest(S) == CHOOSE x \in S : \A y \in S : x >= y

\* the fragment opened at cut a, trimmed
Trimmed(text, a) == SubSeq(text, Lowest(Inside(text, a)), Highest(Inside(text, a)))

\* C3: after the split, the sentences are exactly the trimmed non-empty
\* fragments between delimiters, in document order; each is non-empty, has no
\* whitespace at either end and holds no delimiter; "A,B.C" gives [A, B, C]
\* and a text of whitespace and delimiters only gives [].
C3_SplitterContract ==
    pc = "s_done" =>
        /\ Len(sentences) = Cardinality(Openers(content))
        /\ \A a \in Openers(content) :
              sentences[Cardinality({b \in Openers(content) : b <= a})]
                  = Trimmed(content, a)
        /\ \A n \in 1..Len(sentences) :
              /\ sentences[n] # <<>>
              /\ sentences[n][1] \notin Whitespace
              /\ sentences[n][Len(sentences[n])] \notin Whitespace
              /\ \A k \in 1..Len(sentences[n]) : sentences[n][k] \notin Delimiters
        /\ ((\A k \in 1..Len(content) : content[k] \in Whitespace \cup Delimiters)
               => sentences = <<>>)
        /\ SplitSentences(<<"A", FW_COMMA, "B", FW_STOP, "C">>)
               = <<<<"A">>, <<"B">>, <<"C">>>>
        /\ SplitSentences(<<" ", " ", FW_COMMA, " ", " ">>) = <<>>

\* a text with an empty fragment and padded fragments was split in two
C3_Witness ==
    /\ pc = "s_done"
    /\ content = <<" ", "A", FW_COMMA, "B">>
    /\ sentences = <<<<"A">>, <<"B">>>>

(***************************************************************************)
(* What the claims about duplicate() speak of.                             *)
(***************************************************************************)
\* the loop over the sentences has completed without an error
LoopCompleted ==
    \/ (pc \in {"return", "finally", "done"} /\ exc = NoExc)
    \/ (pc = "loop" /\ i > Len(sentences))

\* the run was aborted by an exception
Aborted == pc \in {"except", "finally", "done"} /\ exc # NoExc

\* the value at data.outputs.result of a parsed response, None when absent
ResultAt(resp) ==
    IF resp.t # "dict" \/ ~HasKey(resp.v, "data") THEN None
    ELSE LET d == DictGet(resp.v, "data", None) IN
         IF d.t # "dict" \/ ~HasKey(d.v, "outputs") THEN None
         ELSE LET o == DictGet(d.v, "outputs", None) IN
              IF o.t # "dict" \/ ~HasKey(o.v, "result") THEN None
              ELSE DictGet(o.v, "result", None)

NonEmptyList(r) == r.t = "list" /\ r.v # <<>>

\* the (content, metadata.score) pairs of a result list, in its order
PairsOf(r) ==
    [j \in 1..Len(r.v) |->
        Pair(DictGet(r.v[j].v, "content", None),
             DictGet(DictGet(r.v[j].v, "metadata", None).v, "score", None))]

EntryOf(rec, s) == DictGet(rec, s, <<>>)

\* the occurrences of sentence s whose response had a non-empty result list
Matched(s) ==
    {n \in 1..Len(responses) : sentences[n] = s /\ NonEmptyList(ResultAt(responses[n]))}

\* C1 as stated: after the loop, record has an entry for sentences[n] exactly
\* when the response obtained for sentences[n] had a non-empty result list,
\* and the entry is the pair list of that response.
C1_PerResponse ==
    LoopCompleted =>
        \A n \in 1..Len(sentences) :
            /\ HasKey(record, sentences[n]) <=> NonEmptyList(ResultAt(responses[n]))
            /\ HasKey(record, sentences[n])
                  => EntryOf(record, sentences[n]) = PairsOf(ResultAt(responses[n]))

\* C1 amended: after the loop, record has an entry for a sentence s exactly
\* when some response obtained for an occurrence of s had a non-empty result
\* list; the entry is the pair list, in response order, of the last such
\* response; an empty result list adds no entry; record has no other keys.
C1_EntryIffMatched ==
    LoopCompleted =>
        /\ Len(responses) = Len(sentences)
        /\ \A n \in 1..Len(sentences) :
              LET s == sentences[n] IN
              /\ HasKey(record, s) <=> Matched(s) # {}
              /\ Matched(s) # {}
                    => EntryOf(record, s) = PairsOf(ResultAt(responses[Highest(Matched(s))]))
        /\ \A m \in 1..Len(record) :
              /\ \E n \in 1..Len(sentences) : sentences[n] = record[m].k
              /\ \A m2 \in 1..Len(record) : record[m2].k = record[m].k => m2 = m

\* a sentence met twice, matched twice the first time and not the second
C1_Witness ==
    /\ pc = "done"
    /\ exc = NoExc
    /\ Len(sentences) = 2
    /\ sentences[1] = sentences[2]
    /\ Len(ResultAt(responses[1]).v) = 2
    /\ ResultAt(responses[2]) = PyList(<<>>)
    /\ Len(EntryOf(record, sentences[1])) = 2

(***************************************************************************)
(* C2.  Responses of an unexpected shape.                                  *)
(***************************************************************************)
MissingData(resp) == resp.t # "dict" \/ ~HasKey(resp.v, "data")
MissingOutputs(resp) ==
    /\ ~MissingData(resp)
    /\ DictGet(resp.v, "data", None).t = "dict"
    /\ ~HasKey(DictGet(resp.v, "data", None).v, "outputs")
MissingResult(resp) ==
    /\ ~MissingData(resp)
    /\ DictGet(resp.v, "data", None).t = "dict"
    /\ HasKey(DictGet(resp.v, "data", None).v, "outputs")
    /\ DictGet(DictGet(resp.v, "data", None).v, "outputs", None).t = "dict"
    /\ ~HasKey(DictGet(DictGet(resp.v, "data", None).v, "outputs", None).v, "result")

NoReportWritten == \A p \in Paths : fs[p].kind # "report"

\* the run was aborted at the sentence whose response is responses[n]
AbortedAt(n) == Aborted /\ n = Len(responses) /\ i = n /\ NoReportWritten

\* C2 as stated: a response missing data, outputs or result aborts the run
\* at that sentence with an error, and no output file is written.
C2_AnyMissingKeyAborts ==
    \A n \in 1..Len(responses) :
        (MissingData(responses[n]) \/ MissingOutputs(responses[n])
            \/ MissingResult(responses[n])) => AbortedAt(n)

\* C2 amended: a response missing data aborts the run at that sentence with
\* an AssertionError and no output file is written, whatever record holds;
\* a response missing only outputs or only result raises nothing: the loop
\* goes on past that sentence.
C2_MissingDataAborts ==
    \A n \in 1..Len(responses) :
        /\ MissingData(responses[n])
              => AbortedAt(n) /\ exc.type = "AssertionError"
        /\ (MissingOutputs(responses[n]) \/ MissingResult(responses[n]))
              => i > n

\* the second response lacks data after the first one produced a match
C2_Witness ==
    /\ pc = "done"
    /\ Len(responses) = 2
    /\ record # <<>>
    /\ MissingData(responses[2])
    /\ http.status = 500

\* a response without outputs was passed over and the run succeeded
C2_WitnessTolerated ==
    /\ pc = "done"
    /\ Len(responses) = 1
    /\ MissingOutputs(responses[1])
    /\ http.status = 200

(***************************************************************************)
(* C4.  The rendered report.                                               *)
(***************************************************************************)
\* the report has been rendered
Rendered == pc \in {"return", "finally", "done"} /\ exc = NoExc

RECURSIVE SectionStart(_)
\* index in markdown_content of the first chunk of section n
SectionStart(n) ==
    IF n = 1 THEN 2 ELSE SectionStart(n - 1) + 5 + 7 * Len(record[n - 1].v)

\* C4: the report is the header, then one section per entry of record in
\* insertion order: the original-sentence heading with the sentence, the
\* duplicates sub-heading, for the k-th match the item numbered k with its
\* score and then its content, and the rule last; header only when record
\* is empty.
C4_ReportLayout ==
    Rendered =>
        /\ markdown_content[1] = REPORT_HEADER
        /\ Len(markdown_content) = SectionStart(Len(record) + 1) - 1
        /\ record = <<>> => markdown_content = <<REPORT_HEADER>>
        /\ \A n \in 1..Len(record) :
              LET at == SectionStart(n)
                  dups == record[n].v
              IN  /\ markdown_content[at] = ORIGINAL_HEADING
                  /\ markdown_content[at + 1] = StrJoin(record[n].k)
                  /\ markdown_content[at + 3] = DUPLICATES_HEADING
                  /\ \A k \in 1..Len(dups) :
                        LET item == at + 4 + 7 * (k - 1) IN
                        /\ markdown_content[item] = ITEM_LABEL
                        /\ markdown_content[item + 1] = ToString(k)
                        /\ markdown_content[item + 2] = "** (Similarity: "
                        /\ markdown_content[item + 3] = dups[k].score.v
                        /\ markdown_content[item + 5] = dups[k].content.v
                  /\ markdown_content[at + 4 + 7 * Len(dups)] = RULE

\* a report of two sections, the first with two items
C4_Witness ==
    /\ pc = "done"
    /\ exc = NoExc
    /\ Len(record) = 2
    /\ Len(record[1].v) = 2
    /\ Len(record[2].v) = 1

\* a report for an empty record
C4_WitnessEmpty ==
    /\ pc = "done"
    /\ exc = NoExc
    /\ sentences # <<>>
    /\ record = <<>>

(***************************************************************************)
(* Claims about DifyAPIClient, checked in the client scenario.             *)
(***************************************************************************)
\* run_workflow has been called and has given its caller a result or an error
Called == pc \in {"c_done", "c_stream", "c_exhausted", "c_raised"}

\* seq ends with tail
EndsWith(seq, tail) ==
    /\ Len(seq) >= Len(tail)
    /\ SubSeq(seq, Len(seq) - Len(tail) + 1, Len(seq)) = tail

\* C5: in either mode a call of run_workflow issues exactly one POST; on a
\* status other than 200 it raises an error whose message holds the status
\* code and the body text, gives back no result and no generator (nothing is
\* ever yielded), and no second request is made.
C5_Non200Raises ==
    /\ posts <= 1
    /\ Called =>
          /\ posts = 1
          /\ wire.status_code # 200 =>
                /\ outcome.kind = "raise"
                /\ outcome.val = None
                /\ \E k \in 1..Len(outcome.exc.msg) :
                      outcome.exc.msg[k] = ToString(wire.status_code)
                /\ EndsWith(outcome.exc.msg, wire.text)
                /\ pc = "c_done"
                /\ yielded = <<>>

\* a streaming call answered 404 with a body of two lines
C5_Witness ==
    /\ pc = "c_done"
    /\ stream
    /\ wire.status_code = 404
    /\ Len(wire.lines) = 2
    /\ wire.text # <<>>
    /\ outcome.kind = "raise"

\* a blocking call answered 500
C5_WitnessBlocking ==
    /\ pc = "c_done"
    /\ ~stream
    /\ wire.status_code = 500
    /\ wire.text # <<>>
    /\ outcome.kind = "raise"

\* the config gives the field no value: absent, None or ""
FieldUnset(config, name) ==
    \A n \in 1..Len(config) :
        config[n].k = name => config[n].v \in {None, PyStr("")}

\* the construction has been attempted
Constructed == pc # "c_new"

\* C6: constructing the client from a config in which base_url, api_key or
\* user is missing or empty raises a ValueError whose message names a field
\* that is missing, and gives no client, no headers and no request; the
\* construction succeeds exactly when all three are non-empty.
C6_ConfigValidated ==
    Constructed =>
        IF \E f \in {"base_url", "api_key", "user"} : FieldUnset(CONFIG, f)
        THEN /\ pc = "c_failed"
             /\ outcome.kind = "raise"
             /\ outcome.exc.type = "ValueError"
             /\ outcome.exc.msg[1] \in {"base_url", "api_key", "user"}
             /\ FieldUnset(CONFIG, outcome.exc.msg[1])
             /\ ~client.made
             /\ client.headers = <<>>
             /\ posts = 0
        ELSE /\ pc # "c_failed"
             /\ client.made
             /\ client.headers # <<>>
             /\ Truthy(client.base_url) /\ Truthy(client.api_key) /\ Truthy(client.user)

\* base_url is set, api_key is None and user is empty: api_key is named
C6_Witness ==
    /\ pc = "c_failed"
    /\ ~FieldUnset(CONFIG, "base_url")
    /\ CONFIG = MkConfig("value", "None", "empty")
    /\ outcome.exc.msg[1] = "api_key"

\* the generator has ended: exhausted, or ended by an exception
StreamEnded == stream /\ pc \in {"c_exhausted", "c_raised"}

\* the lines of the body that carry the data prefix
DataLines == {n \in 1..Len(wire.lines) : StartsWithData(wire.lines[n])}

\* C7: in streaming mode the generator yields exactly one object per data
\* line, in line order, and no line ends the stream: when the generator has
\* ended it has yielded as many items as the body has data lines and it was
\* not ended by an exception.
C7_OneItemPerDataLine ==
    StreamEnded =>
        /\ pc = "c_exhausted"
        /\ Len(yielded) = Cardinality(DataLines)

\* the JSON texts over the tokens of the bodies, nested at most twice, with
\* at most two elements to a list and one member to an object
JsonAtoms == {<<"null">>, <<"0.9">>, <<Quote("X")>>}
JsonOver(V) ==
    V \cup {Arr(items) : items \in SeqsUpTo(V, 2)}
      \cup {<<"{", "}">>}
      \cup {Obj("X", v) : v \in V}
ValidJson == JsonOver(JsonOver(JsonAtoms))

\* C8: in blocking mode, on status 200, a body that is not valid JSON makes
\* run_workflow raise an error that describes the parse failure and ends
\* with the raw body; a body that is valid JSON is returned parsed, with no
\* error, and serialises back to the body it came from.
C8_BlockingParse ==
    (pc = "c_done" /\ ~stream /\ wire.status_code = 200) =>
        IF wire.text \in ValidJson
        THEN /\ outcome.kind = "return"
             /\ outcome.exc = NoExc
             /\ JsonDumps(outcome.val) = wire.text
        ELSE /\ outcome.kind = "raise"
             /\ outcome.val = None
             /\ outcome.exc.msg[1] = "Failed to parse JSON response: "
             /\ \E k \in 2..Len(outcome.exc.msg) :
                   outcome.exc.msg[k] \in {"Expecting value", "Extra data"}
             /\ EndsWith(outcome.exc.msg, wire.text)
             /\ Len(outcome.exc.msg) > Len(wire.text) + 2

\* a value followed by a stray bracket was rejected with the body quoted
C8_Witness ==
    /\ pc = "c_done"
    /\ ~stream
    /\ wire.status_code = 200
    /\ wire.text = <<"[", "0.9", "]", "]">>
    /\ outcome.kind = "raise"

\* an object holding a list was returned parsed
C8_WitnessValid ==
    /\ pc = "c_done"
    /\ ~stream
    /\ wire.status_code = 200
    /\ wire.text = <<"{", Quote("X"), ":", "[", "0.9", ",", "null", "]", "}">>
    /\ outcome.kind = "return"
    /\ outcome.val.t = "dict"

(***************************************************************************)
(* Claims about the cleanup of the processing endpoints.                   *)
(***************************************************************************)
\* C9: on either endpoint, when the request has finished the temporary
\* input file does not exist, whether the pipeline succeeded or raised.
C9_TempInputRemoved ==
    /\ pc = "done" => ~Exists(fs, tmp_file_path)
    /\ pc \in {"read", "loop", "await", "return", "except"} => Exists(fs, tmp_file_path)

\* a finished request whose pipeline succeeded
C9_WitnessSuccess ==
    /\ pc = "done"
    /\ http.status = 200
    /\ posts = 2

\* a finished request whose pipeline raised at the write
C9_WitnessWriteRaised ==
    /\ pc = "done"
    /\ http.status = 500
    /\ posts = 1
    /\ markdown_content # <<>>
    /\ exc.type = "ValueError"

\* the files other than the temporary input that a step removes
Removed == {p \in Paths : p # tmp_file_path /\ Exists(fs, p) /\ ~Exists(fs', p)}

C10_WitnessSync ==
    /\ pc = "done"
    /\ endpoint = "sync"
    /\ http.status = 500
    /\ output_path = Path("/out", "given", ".md")
    /\ ~Exists(fs, output_path)
    /\ Exists(fs, Path("/out", "given", ".txt"))

(***************************************************************************)
(* C11.  Every error of the pipeline is answered with 500 and the message. *)
(***************************************************************************)
\* the handler has chosen its answer
Answered == pc \in {"finally", "done"}

\* an error occurred while the pipeline processed the file: an exception
\* reached the handler, or write_markdown caught one and printed it
PipelineError == exc # NoExc \/ stdout # <<>>

\* C11: on both processing endpoints, whenever an error occurred while the
\* pipeline processed the file (read, client construction, remote call,
\* response-shape check, write), the answer is a 500 whose detail carries the
\* exception message, and never the success response with a download URL.
C11_AnyErrorGives500 ==
    (Answered /\ PipelineError) =>
        /\ http.status = 500
        /\ http.download_url = <<>>
        /\ \E msg \in {exc.msg} \cup {stdout} :
              http.detail = <<"Error processing file: ">> \o msg

(***************************************************************************)
(* C12.  The two processing endpoints have the same contract.              *)
(***************************************************************************)
\* duplicate.py 33-44 as a function of the responses the calls are answered
\* with: the loop from sentence k on
RECURSIVE RunLoop(_, _, _, _, _)
RunLoop(config, sents, k, rec, resps) ==
    IF k > Len(sents) THEN [ok |-> TRUE, record |-> rec, exc |-> NoExc]
    ELSE LET c == ClientInit(config) IN
         IF ~c.ok THEN [ok |-> FALSE, record |-> rec, exc |-> c.exc]
         ELSE IF k > Len(resps)
         THEN [ok |-> FALSE, record |-> rec, exc |-> Exc("unanswered", <<>>)]
         ELSE LET got == RunWorkflow(resps[k], FALSE)
                  r == ProcessResult(got.val, rec, sents[k])
              IN  IF got.kind = "raise"
                  THEN [ok |-> FALSE, record |-> rec, exc |-> got.exc]
                  ELSE IF ~r.ok
                  THEN [ok |-> FALSE, record |-> r.record, exc |-> r.exc]
                  ELSE RunLoop(config, sents, k + 1, r.record, resps)

\* duplicate(file_path, output_path) as a function of the filesystem and of
\* the responses
Duplicate(config, files, file_path, out, resps) ==
    LET rd == DocRead(files, file_path) IN
    IF ~rd.ok THEN [ok |-> FALSE, files |-> files, exc |-> rd.exc]
    ELSE LET lp == RunLoop(config, SplitSentences(rd.content), 1, <<>>, resps) IN
         IF ~lp.ok THEN [ok |-> FALSE, files |-> files, exc |-> lp.exc]
         ELSE LET w == DocWrite(files, RenderReport(lp.record),
                                DuplicateOutputPath(file_path, out))
              IN  [ok |-> w.ok, files |-> w.files, exc |-> w.exc]

\* api.py 41-105 (ep = "sync") and 108-172 (ep = "async") as a function of
\* the request, the filesystem and the responses: the answer and the files
Handler(ep, config, files, ext, text, out_arg, resps) ==
    LET tmp == TmpPath(ext)
        uploaded == [files EXCEPT ![tmp] = File("upload", text)]
        out == IF out_arg = None THEN DefaultOutputPath(tmp) ELSE out_arg
        d == Duplicate(config, uploaded, tmp, out, resps)
        cleaned == IF d.ok THEN d.files
                   ELSE IF ep = "sync"
                   THEN ExceptCleanupSync(d.files, tmp, out_arg, out)
                   ELSE ExceptCleanupAsync(d.files, tmp, out_arg, out)
    IN  [http |-> IF ~d.ok THEN ErrorResponse(d.exc)
                  ELSE IF ep = "sync" THEN SuccessResponseSync(out)
                  ELSE SuccessResponseAsync(out),
         fs |-> FinallyCleanup(cleaned, tmp)]

\* C12: for the same upload, the same output_path argument, the same initial
\* filesystem and the same sequence of remote responses, the synchronous and
\* the async endpoint give the same response (success body, or 500 with the
\* same detail) and leave the same files present and absent: the answer and
\* the files of a finished request are what either endpoint computes from
\* those inputs.
C12_AsyncSameContract ==
    pc = "done" =>
        \A ep \in Endpoints :
            Handler(ep, CONFIG, initial_fs, tmp_file_path.ext, content, output_path,
                    received) = [http |-> http, fs |-> fs]

\* an async request that succeeded after at least one remote call
C12_Witness ==
    /\ pc = "done"
    /\ endpoint = "async"
    /\ http.status = 200
    /\ received # <<>>
    /\ fs[ResultOutputPath].kind = "report"

\* an async request that failed and removed a file at the caller's output_path
C12_WitnessFailed ==
    /\ pc = "done"
    /\ endpoint = "async"
    /\ http.status = 500
    /\ output_path # None
    /\ Exists(initial_fs, output_path)
    /\ ~Exists(fs, output_path)

(***************************************************************************)
(* C13.  The download endpoint.                                            *)
(***************************************************************************)
\* the paths on disk that the segment, URL-decoded, names
Named == {p \in Paths : PathString(p) = StrJoin(Unquote(segment)) /\ Exists(initial_fs, p)}

C13_WitnessMissing ==
    /\ pc = "d_done"
    /\ download.status = 404
    /\ segment = <<"/out/given", ".", "md">>

(***************************************************************************)
(* C14.  The remote calls of one run are sequential and in sentence order. *)
(***************************************************************************)
\* C14: within one pipeline run at most one remote call is outstanding at any
\* time, the call for the next sentence is issued only after the response for
\* the previous one has been received and recorded, a successful run over N
\* sentences issues exactly N calls, and after a call or a response check has
\* failed no further call is issued.
C14_SequentialCalls ==
    [][ /\ outstanding' <= 1
        /\ posts' # posts =>
              /\ posts' = posts + 1
              /\ outstanding = 0
              /\ Len(received) = posts
              /\ Len(responses) = posts
              /\ i = posts + 1
              /\ i <= Len(sentences)
        /\ exc # NoExc => posts' = posts
        /\ pc' = "return" => posts' = Len(sentences') ]_vars

\* the second call is out: the first response has been recorded before it
C14_Witness ==
    /\ pc = "await"
    /\ posts = 2
    /\ outstanding = 1
    /\ Len(responses) = 1
    /\ record # <<>>

\* a run over two sentences that succeeded
C14_WitnessSuccess ==
    /\ pc = "done"
    /\ exc = NoExc
    /\ Len(sentences) = 2
    /\ posts = 2

(***************************************************************************)
(* C15.  A file already at the caller's output_path is left alone.         *)
(***************************************************************************)
\* the request names an output_path at which a file was already present
OutputPreExists == output_path # None /\ Exists(initial_fs, output_path)

\* C15: a file that already exists at the caller-supplied output_path before
\* a processing request starts is neither overwritten nor deleted by the
\* request, whether the pipeline succeeds or fails, on either endpoint.
C15_ExistingOutputUntouched ==
    OutputPreExists => fs[output_path] = initial_fs[output_path]

(***************************************************************************)
(* C16.  A success response names a file that holds this run's report.     *)
(***************************************************************************)
\* C16: whenever a processing endpoint returns the success response, the file
\* at the returned output_path exists and its content is the report rendered
\* by that same run from that run's remote responses.
C16_SuccessMeansReportOnDisk ==
    http.status = 200 =>
        /\ Exists(fs, http.output_path)
        /\ fs[http.output_path] = File("report", RenderReport(record))
        /\ markdown_content = RenderReport(record)
        /\ posts = Len(sentences)

(***************************************************************************)
(* C17.  A sentence that occurs several times has one entry.               *)
(***************************************************************************)
Keys(rec) == [m \in 1..Len(rec) |-> rec[m].k]
DistinctSentences == {sentences[n] : n \in 1..Len(sentences)}
Sections ==
    Cardinality({n \in 1..Len(markdown_content) : markdown_content[n] = ORIGINAL_HEADING})

\* one entry per sentence, in the order of the first occurrences that matched,
\* and no more entries or sections than distinct sentences
OneEntryInFirstMatchOrder ==
    exc = NoExc =>
        /\ \A m1, m2 \in 1..Len(record) :
              /\ record[m1].k = record[m2].k => m1 = m2
              /\ m1 < m2 => /\ Matched(record[m1].k) # {}
                            /\ Matched(record[m2].k) # {}
                            /\ Lowest(Matched(record[m1].k)) < Lowest(Matched(record[m2].k))
        /\ Len(record) <= Cardinality(DistinctSentences)
        /\ Sections <= Cardinality(DistinctSentences)
        /\ markdown_content # <<>> => Sections = Len(record)

\* C17: when a sentence occurs several times in a document the record keeps a
\* single entry for it: an occurrence whose response has a non-empty result
\* replaces the entry's list with that occurrence's pairs (never appends), an
\* occurrence with an empty result leaves the record unchanged, the entry
\* keeps the position of the first occurrence that produced matches, and the
\* report has no more sections than there are distinct sentences.
C17_RepeatedSentences ==
    [][ /\ OneEntryInFirstMatchOrder'
        /\ (pc = "await" /\ pc' = "loop") =>
              LET s == sentences[i]
                  r == ResultAt(responses'[Len(responses')])
              IN  IF NonEmptyList(r)
                  THEN /\ EntryOf(record', s) = PairsOf(r)
                       /\ HasKey(record, s) => Keys(record') = Keys(record)
                       /\ ~HasKey(record, s) => Keys(record') = Append(Keys(record), s)
                       /\ \A m \in 1..Len(record) :
                             record[m].k # s => record'[m] = record[m]
                  ELSE record' = record ]_vars

\* A, B, A all matched, the second A differently from the first: A is still
\* the first of two sections and holds the pairs of its second occurrence
C17_Witness ==
    /\ pc = "done"
    /\ exc = NoExc
    /\ Len(sentences) = 3
    /\ sentences[1] = sentences[3]
    /\ Len(record) = 2
    /\ record[1].k = sentences[1]
    /\ NonEmptyList(ResultAt(responses[1]))
    /\ record[1].v = PairsOf(ResultAt(responses[3]))
    /\ record[1].v # PairsOf(ResultAt(responses[1]))
    /\ Sections = 2

\* the second occurrence of A had an empty result: the entry is the first one's
C17_WitnessEmptyLater ==
    /\ pc = "done"
    /\ exc = NoExc
    /\ Len(sentences) = 3
    /\ NonEmptyList(ResultAt(responses[1]))
    /\ ResultAt(responses[3]) = PyList(<<>>)
    /\ record[1].v = PairsOf(ResultAt(responses[1]))

(***************************************************************************)
(* C18.  max_workers does not limit the number of concurrent runs.         *)
(***************************************************************************)
InsideDuplicate == {r \in Requests : runs[r] = "running"}

KnownEndings == {".md", ".markdown", ".docx", ".csv", ".xlsx", ".xls"}

\* a request is being served whose input path has none of the known endings
UnknownInput == tmp_file_path # None /\ tmp_file_path.ext \notin KnownEndings

C19_WitnessNoExtension ==
    /\ pc = "except"
    /\ tmp_file_path = TmpPath("")
    /\ exc = UnknownTypeError
====
